---- MODULE Spec2Model ----
(***************************************************************************)
(* Model of the claim cross-reference and confidence fusion engine of the  *)
(* fake-news verifier backend (backend/app).                               *)
(*                                                                         *)
(* Conventions of the model                                                *)
(*  - a text (Python str) is a sequence of one-character strings;          *)
(*  - a similarity (Python float built from set-size quotients) is an      *)
(*    exact rational <<numerator, denominator>> with denominator > 0;      *)
(*  - a truth score, a prior, a confidence is an integer number of         *)
(*    hundredths (0.75 is 75); log-odds are in thousandths;                *)
(*  - time is counted in ticks of half a second.                           *)
(***************************************************************************)
EXTENDS Integers, Sequences, FiniteSets, TLC

VARIABLES
    clock,                  \* time.time() / datetime.now(), in ticks
    pf_last_request_time,   \* PolitiFactClient.last_request_time
    analysis,               \* the response of the /analyze request being answered
    xref,                   \* the cross_reference_claim call being answered
    api_key,                \* whether GOOGLE_FACTCHECK_API_KEY is configured
    g_last_request_time,    \* GoogleFactCheckClient.last_request_time
    files,                  \* the cache directory: cache key -> file content
    http,                   \* the last two requests sent to the Google API
    call,                   \* the ResultCache / search call being answered
    written,                \* history: cache key -> the last write of its entry
    pure,                   \* the direct call of a pure function being answered
    threads,                \* the worker threads answering requests concurrently
    cross_reference_adapter,\* claims_client._cross_reference_adapter (0 is None)
    instances,              \* adapter instance -> its client's last_request_time
    disk                    \* the blocks of the cache file the threads share

vars == <<clock, pf_last_request_time, analysis, xref, api_key,
          g_last_request_time, files, http, call, written, pure,
          threads, cross_reference_adapter, instances, disk>>
raceVars == <<threads, cross_reference_adapter, instances, disk>>
seqVars == <<clock, pf_last_request_time, analysis, xref, api_key,
             g_last_request_time, files, http, call, written, pure>>
pfVars == <<pf_last_request_time, analysis, pure>>
gVars == <<api_key, raceVars, g_last_request_time, files, http, call, written, pure>>

----------------------------------------------------------------------------
(* Bounds of the model *)

MaxTime == 4        \* the clock stops advancing here
StartTime == 2      \* the clock at start-up (last_request_time starts at 0)
MaxClaims == 2      \* claims extracted from one article
MaxItems == 2       \* statements in one API response to the pipeline
MaxXrefItems == 2   \* statements in one API response to a direct call
MaxTopK == 2        \* top_k of a direct cross_reference_claim call
MaxCacheItems == 1  \* statements in one API response in the cache specifications
TtlTicks == 1       \* ResultCache.ttl (ttl_hours of the constructor), in ticks
MaxThreads == 2     \* worker threads of the server
MaxRaceItems == 2   \* results in one list given to a set that races

----------------------------------------------------------------------------
(* Texts *)

UpperCase ==
    <<"A", "B", "C", "D", "E", "F", "G", "H", "I", "J", "K", "L", "M", "N", "O", "P", "Q", "R", "S", "T", "U", "V", "W", "X", "Y", "Z">>
LowerCase ==
    <<"a", "b", "c", "d", "e", "f", "g", "h", "i", "j", "k", "l", "m", "n", "o", "p", "q", "r", "s", "t", "u", "v", "w", "x", "y", "z">>

\* the characters of the model's texts
Alphabet ==
    {UpperCase[i] : i \in 1..Len(UpperCase)} \cup {LowerCase[i] : i \in 1..Len(LowerCase)}
    \cup {" ", "|", "-", ".", "%", "0", "1", "2", "3", "4", "5", "6", "7", "8", "9"}

\* str.upper() on one character
UpperChar(c) ==
    IF \E i \in 1..Len(LowerCase) : LowerCase[i] = c
    THEN UpperCase[CHOOSE i \in 1..Len(LowerCase) : LowerCase[i] = c]
    ELSE c

Upper(s) == [i \in 1..Len(s) |-> UpperChar(s[i])]

LowerMap ==
    [c \in Alphabet |->
        IF \E i \in 1..Len(UpperCase) : UpperCase[i] = c
        THEN LowerCase[CHOOSE i \in 1..Len(UpperCase) : UpperCase[i] = c]
        ELSE c]

\* str.lower() on one character
LowerChar(c) == LowerMap[c]

Lower(s) == [i \in 1..Len(s) |-> LowerChar(s[i])]

IsSpace(c) == c = " "

RECURSIVE SplitFrom(_, _, _, _)
SplitFrom(s, i, cur, acc) ==
    IF i > Len(s)
    THEN IF cur = <<>> THEN acc ELSE Append(acc, cur)
    ELSE IF IsSpace(s[i])
         THEN SplitFrom(s, i + 1, <<>>, IF cur = <<>> THEN acc ELSE Append(acc, cur))
         ELSE SplitFrom(s, i + 1, Append(cur, s[i]), acc)

\* str.split(): the maximal runs of non-whitespace characters
Split(s) == SplitFrom(s, 1, <<>>, <<>>)

\* set(s.split())
WordSet(s) == {Split(s)[i] : i \in 1..Len(Split(s))}

RECURSIVE LStrip(_)
LStrip(s) == IF s # <<>> /\ IsSpace(s[1]) THEN LStrip(Tail(s)) ELSE s

RECURSIVE RStrip(_)
RStrip(s) ==
    IF s # <<>> /\ IsSpace(s[Len(s)]) THEN RStrip(SubSeq(s, 1, Len(s) - 1)) ELSE s

\* str.strip()
Strip(s) == RStrip(LStrip(s))

\* a in b, for two strings
IsSubstring(a, b) ==
    \E i \in 0..(Len(b) - Len(a)) : SubSeq(b, i + 1, i + Len(a)) = a

\* set(s[i:i+2] for i in range(len(s)-1))
Bigrams(s) == {SubSeq(s, i, i + 1) : i \in 1..(Len(s) - 1)}

----------------------------------------------------------------------------
(* Rationals *)

RatLess(a, b) == a[1] * b[2] < b[1] * a[2]
RatLeq(a, b) == a[1] * b[2] <= b[1] * a[2]
RatEq(a, b) == a[1] * b[2] = b[1] * a[2]
RatAdd(a, b) == <<a[1] * b[2] + b[1] * a[2], a[2] * b[2]>>
RatZero == <<0, 1>>
RatOne == <<1, 1>>
RatMin(a, b) == IF RatLess(b, a) THEN b ELSE a

RECURSIVE RatSum(_)
RatSum(seq) == IF seq = <<>> THEN RatZero ELSE RatAdd(seq[1], RatSum(Tail(seq)))

\* the hundredths of a rational, rounded down
RatToPct(a) == (100 * a[1]) \div a[2]

----------------------------------------------------------------------------
(* Ranking: list.sort(key=similarity, reverse=True) is a stable sort *)

RECURSIVE InsertDesc(_, _)
InsertDesc(e, sorted) ==
    IF sorted = <<>> THEN <<e>>
    ELSE IF RatLess(sorted[1].similarity, e.similarity)
         THEN <<e>> \o sorted
         ELSE <<sorted[1]>> \o InsertDesc(e, Tail(sorted))

\* a ranking that leaves the list in the order of the API's response
SortOmitted(seq) == seq

RECURSIVE SortBySimilarityDesc(_)
SortBySimilarityDesc(seq) ==
    IF seq = <<>> THEN <<>>
    ELSE InsertDesc(seq[Len(seq)], SortBySimilarityDesc(SubSeq(seq, 1, Len(seq) - 1)))

\* seq[:k] for k >= 0
Take(seq, k) == SubSeq(seq, 1, IF k < Len(seq) THEN k ELSE Len(seq))

----------------------------------------------------------------------------
(* Stance thresholds *)

SupportsThreshold == 70
RefutesThreshold == 30

\* a classifier whose boundary values fall into "mixed"
StanceOfStrict(truth_score) ==
    IF truth_score > SupportsThreshold THEN "supports"
    ELSE IF truth_score < RefutesThreshold THEN "refutes"
    ELSE "mixed"

StanceOf(truth_score) ==
    IF truth_score >= SupportsThreshold THEN "supports"
    ELSE IF truth_score <= RefutesThreshold THEN "refutes"
    ELSE "mixed"

----------------------------------------------------------------------------
(* Rate limiting: time after _respect_rate_limit returns *)

\* a limiter that records the time and never sleeps
RespectRateLimitNoSleep(now, last, delay) == now

RespectRateLimit(now, last, delay) ==
    LET elapsed == now - last
    IN  IF elapsed < delay THEN now + (delay - elapsed) ELSE now

----------------------------------------------------------------------------
(* Values of the model's text universes *)

TxtTrue == <<"t", "r", "u", "e">>
TxtFalse == <<"f", "a", "l", "s", "e">>
TxtMostlyTrue == <<"m", "o", "s", "t", "l", "y", "-", "t", "r", "u", "e">>
TxtHalfTrue == <<"h", "a", "l", "f", "-", "t", "r", "u", "e">>
TxtMostlyFalse == <<"m", "o", "s", "t", "l", "y", "-", "f", "a", "l", "s", "e">>
TxtPantsFire == <<"p", "a", "n", "t", "s", "-", "f", "i", "r", "e">>
TxtUnobservable == <<"u", "n", "o", "b", "s", "e", "r", "v", "a", "b", "l", "e">>
TxtPolitiFact == <<"P", "o", "l", "i", "t", "i", "F", "a", "c", "t">>

\* a JSON value where the code expects a string
StrVal(t) == [kind |-> "str", text |-> t]
ListVal == [kind |-> "list", text |-> <<>>]
NullVal == [kind |-> "null", text |-> <<>>]

SeqsUpTo(S, n) == UNION {[1..k -> S] : k \in 0..n}

ClaimTexts == {<<"a", " ", "b">>, <<"C">>}

\* objects of the "results" array of the PolitiFact API: the statements seen by
\* the pipeline
PfItems ==
    {[stmt |-> StrVal(<<"A">>), slug |-> TxtMostlyTrue],
     [stmt |-> StrVal(<<"d">>), slug |-> TxtFalse],
     [stmt |-> ListVal, slug |-> TxtFalse],
     [stmt |-> NullVal, slug |-> TxtFalse]}

FailureKinds == {"neterr", "http_error", "badjson"}

\* what session.get / raise_for_status / response.json() can produce: a
\* network error, a non-2xx status, a body that is not JSON, or a JSON object
Responses(items, n) ==
    {[kind |-> k, items |-> <<>>] : k \in FailureKinds}
    \cup {[kind |-> "ok", items |-> it] : it \in SeqsUpTo(items, n)}

----------------------------------------------------------------------------
(* politifact_client.py *)

PfRateLimitDelay == 1
SnippetMax == 200

PfTruthMeterMap ==
    << <<TxtTrue, 95>>, <<TxtMostlyTrue, 75>>, <<TxtHalfTrue, 50>>,
       <<TxtMostlyFalse, 25>>, <<TxtFalse, 5>>, <<TxtPantsFire, 0>>,
       <<TxtUnobservable, 50>> >>

\* truth_meter_map.get(truth_meter, 0.5)
PfTruthMeterScore(truth_meter) ==
    IF \E i \in 1..Len(PfTruthMeterMap) : PfTruthMeterMap[i][1] = truth_meter
    THEN PfTruthMeterMap[CHOOSE i \in 1..Len(PfTruthMeterMap) :
                             PfTruthMeterMap[i][1] = truth_meter][2]
    ELSE 50

PfGetSnippet(t) ==
    IF Len(t) > SnippetMax
    THEN SubSeq(t, 1, SnippetMax - 3) \o <<".", ".", ".">>
    ELSE t

\* _parse_statement: None when len() of the statement raises (a JSON null);
\* a list-valued statement passes, since len() and slicing accept a list
PfParseStatement(item) ==
    [ok |-> item.stmt.kind # "null",
     result |-> [statement |-> item.stmt,
                 truth_meter |-> Lower(item.slug),
                 truth_meter_score |-> PfTruthMeterScore(Lower(item.slug)),
                 snippet |-> PfGetSnippet(item.stmt.text)]]

\* PolitiFactClient.search after the rate limiter: every failure gives []
PfSearch(claim, limit, resp) ==
    IF resp.kind # "ok" THEN <<>>
    ELSE LET parsed == [i \in 1..Len(resp.items) |-> PfParseStatement(resp.items[i])]
             IsOk(p) == p.ok
             kept == SelectSeq(parsed, IsOk)
         IN  [i \in 1..Len(kept) |-> kept[i].result]

\* CrossReferenceAdapter._compute_similarity of politifact_client.py
PfComputeSimilarity(text1, text2) ==
    LET words1 == WordSet(Lower(text1))
        words2 == WordSet(Lower(text2))
        intersection == Cardinality(words1 \cap words2)
        union == Cardinality(words1 \cup words2)
    IN  IF words1 = {} \/ words2 = {} THEN RatZero
        ELSE RatMin(<<3 * intersection, 2 * union>>, RatOne)

PfSupportsThreshold == 70
PfRefutesThreshold == 30

\* lines 200-207: the stance of a PolitiFact result
PfStanceOf(truth_score) ==
    IF truth_score >= PfSupportsThreshold THEN "supports"
    ELSE IF truth_score <= PfRefutesThreshold THEN "refutes"
    ELSE "mixed"

PfConvertToEvidenceFormat(result, source_name, claim) ==
    [type |-> "fact_check",
     source_name |-> source_name,
     stance |-> PfStanceOf(result.truth_meter_score),
     similarity |-> PfComputeSimilarity(claim, result.statement.text),
     snippet |-> result.snippet,
     truth_meter |-> result.truth_meter,
     truth_meter_score |-> result.truth_meter_score]

\* cross_reference_claim of politifact_client.py, given the API's response;
\* raised: text2.lower() on a statement that is not a string
PfCrossReferenceClaim(claim, top_k, resp) ==
    LET results == PfSearch(claim, top_k, resp)
        raised == \E i \in 1..Len(results) : results[i].statement.kind # "str"
        all_evidence ==
            [i \in 1..Len(results) |->
                PfConvertToEvidenceFormat(results[i], TxtPolitiFact, claim)]
    IN  [raised |-> raised,
         candidates |-> IF raised THEN <<>> ELSE all_evidence,
         evidence |-> IF raised THEN <<>>
                      ELSE Take(SortBySimilarityDesc(all_evidence), top_k)]

----------------------------------------------------------------------------
(* google_factcheck_client.py: ResultCache *)

TxtAll == <<"a", "l", "l">>
TxtUnknown == <<"U", "n", "k", "n", "o", "w", "n">>

\* an absent optional argument
NoneVal == [kind |-> "none", text |-> <<>>]

\* JSON values of a cache file
JMissing == [kind |-> "missing", val |-> 0, items |-> <<>>]
JNull == [kind |-> "null", val |-> 0, items |-> <<>>]
JNumber == [kind |-> "number", val |-> 0, items |-> <<>>]
JObject == [kind |-> "object", val |-> 0, items |-> <<>>]
JBadStr == [kind |-> "badstr", val |-> 0, items |-> <<>>]
JArray(items) == [kind |-> "array", val |-> 0, items |-> items]

\* datetime.isoformat() / datetime.fromisoformat()
IsoFormat(t) == [kind |-> "str", val |-> t, items |-> <<>>]
IsIsoFormat(v) == v.kind = "str"
FromIsoFormat(v) == v.val

\* Python values a cache read can return
PyNone == [kind |-> "none", items |-> <<>>]
PyList(items) == [kind |-> "list", items |-> items]
PyOther(kind) == [kind |-> kind, items |-> <<>>]

\* json.dump of one result dict; an element that is no result dict stays what it is
ResultToJson(r) ==
    [kind |-> IF r.wellformed THEN "object" ELSE "number",
     statement |-> r.statement, truth_rating |-> r.truth_rating,
     truth_score |-> r.truth_score, snippet |-> r.snippet,
     publisher |-> r.publisher]

\* json.load of one array element
ResultOfJson(o) ==
    [wellformed |-> o.kind = "object",
     statement |-> o.statement, truth_rating |-> o.truth_rating,
     truth_score |-> o.truth_score, snippet |-> o.snippet,
     publisher |-> o.publisher]

JsonDump(results) == JArray([i \in 1..Len(results) |-> ResultToJson(results[i])])

\* a read of a key the file does not hold, defaulted to the empty list
JsonLoadWrongKey(v) == PyList(<<>>)

JsonLoad(v) ==
    IF v.kind = "null" THEN PyNone
    ELSE IF v.kind = "array"
         THEN PyList([i \in 1..Len(v.items) |-> ResultOfJson(v.items[i])])
         ELSE PyOther(v.kind)

NoFile == [kind |-> "none", timestamp |-> JMissing, results |-> JMissing]
Garbage == [kind |-> "garbage", timestamp |-> JMissing, results |-> JMissing]
JsonFile(timestamp, results) ==
    [kind |-> "json", timestamp |-> timestamp, results |-> results]

\* _get_cache_key: the md5 digest of the lower-cased text, taken as injective:
\* the digest of a text is modelled by the lower-cased text itself
GetCacheKey(claim) == Lower(claim)

\* a get that expires an entry as soon as its age reaches the TTL
CacheGetExpiresAtTtl(claim, now, fs, fault) ==
    LET cache_key == GetCacheKey(claim)
        f == fs[cache_key]
    IN  IF f.kind # "json" \/ ~IsIsoFormat(f.timestamp) \/ fault # "none"
        THEN [ret |-> PyNone, files |-> fs]
        ELSE IF now - FromIsoFormat(f.timestamp) >= TtlTicks
             THEN [ret |-> PyNone, files |-> [fs EXCEPT ![cache_key] = NoFile]]
             ELSE [ret |-> JsonLoad(f.results), files |-> fs]

\* ResultCache.get: the value returned and the cache directory afterwards.
\* fault: "none", "read_error" (open or read fails), "unlink_error"
CacheGet(claim, now, fs, fault) ==
    LET cache_key == GetCacheKey(claim)
        f == fs[cache_key]
    IN  IF f.kind = "none" THEN [ret |-> PyNone, files |-> fs]
        ELSE IF fault = "read_error" \/ f.kind = "garbage"
             THEN [ret |-> PyNone, files |-> fs]
        ELSE IF ~IsIsoFormat(f.timestamp) THEN [ret |-> PyNone, files |-> fs]
        ELSE IF now - FromIsoFormat(f.timestamp) > TtlTicks
             THEN [ret |-> PyNone,
                   files |-> IF fault = "unlink_error" THEN fs
                             ELSE [fs EXCEPT ![cache_key] = NoFile]]
        ELSE IF f.results.kind = "missing" THEN [ret |-> PyNone, files |-> fs]
        ELSE [ret |-> JsonLoad(f.results), files |-> fs]

\* a set that stores the result list trimmed to its first item
CacheSetTrimmed(claim, results, now, fs, fault) ==
    [fs EXCEPT ![GetCacheKey(claim)] =
        JsonFile(IsoFormat(now), JsonDump(Take(results, 1)))]

\* ResultCache.set: the cache directory afterwards.
\* fault: "none", "open_error" (the file is not opened), "write_error" (the
\* file was truncated by open and the write fails)
CacheSet(claim, results, now, fs, fault) ==
    LET cache_key == GetCacheKey(claim)
    IN  IF fault = "open_error" THEN fs
        ELSE IF fault = "write_error" THEN [fs EXCEPT ![cache_key] = Garbage]
        ELSE [fs EXCEPT ![cache_key] = JsonFile(IsoFormat(now), JsonDump(results))]

----------------------------------------------------------------------------
(* google_factcheck_client.py: GoogleFactCheckClient *)

GRateLimitDelay == 2
GSnippetMax == 300

GRatingMap ==
    << <<<<"t", "r", "u", "e">>, 95>>,
       <<<<"c", "o", "r", "r", "e", "c", "t">>, 95>>,
       <<<<"a", "c", "c", "u", "r", "a", "t", "e">>, 95>>,
       <<<<"m", "o", "s", "t", "l", "y", " ", "t", "r", "u", "e">>, 75>>,
       <<<<"m", "o", "s", "t", "l", "y", " ", "c", "o", "r", "r", "e", "c", "t">>, 75>>,
       <<<<"h", "a", "l", "f", " ", "t", "r", "u", "e">>, 50>>,
       <<<<"m", "i", "x", "t", "u", "r", "e">>, 50>>,
       <<<<"m", "i", "x", "e", "d">>, 50>>,
       <<<<"u", "n", "p", "r", "o", "v", "e", "n">>, 40>>,
       <<<<"u", "n", "d", "e", "t", "e", "r", "m", "i", "n", "e", "d">>, 40>>,
       <<<<"m", "o", "s", "t", "l", "y", " ", "f", "a", "l", "s", "e">>, 25>>,
       <<<<"m", "o", "s", "t", "l", "y", " ", "i", "n", "c", "o", "r", "r", "e", "c", "t">>, 25>>,
       <<<<"f", "a", "l", "s", "e">>, 5>>,
       <<<<"i", "n", "c", "o", "r", "r", "e", "c", "t">>, 5>>,
       <<<<"p", "a", "n", "t", "s", " ", "o", "n", " ", "f", "i", "r", "e">>, 0>>,
       <<<<"p", "a", "n", "t", "s", "-", "f", "i", "r", "e">>, 0>>,
       <<<<"l", "e", "g", "e", "n", "d">>, 5>>,
       <<<<"o", "u", "t", "d", "a", "t", "e", "d">>, 30>>,
       <<<<"m", "i", "s", "l", "e", "a", "d", "i", "n", "g">>, 20>> >>

\* _rating_to_score: exact match, then the first key contained in the rating
GRatingToScore(rating) ==
    LET r == Strip(Lower(rating))
        n == Len(GRatingMap)
    IN  IF \E i \in 1..n : GRatingMap[i][1] = r
        THEN GRatingMap[CHOOSE i \in 1..n : GRatingMap[i][1] = r][2]
        ELSE IF \E i \in 1..n : IsSubstring(GRatingMap[i][1], r)
             THEN GRatingMap[CHOOSE i \in 1..n :
                                /\ IsSubstring(GRatingMap[i][1], r)
                                /\ \A j \in 1..(i - 1) :
                                      ~IsSubstring(GRatingMap[j][1], r)][2]
             ELSE 50

\* _parse_claim: None without a review, or when slicing the text raises (a
\* JSON null); a list-valued text passes, since slicing accepts a list
GParseClaim(item) ==
    [ok |-> item.reviewed /\ item.text.kind # "null",
     result |-> [wellformed |-> TRUE,
                 statement |-> item.text,
                 truth_rating |-> Lower(item.rating),
                 truth_score |-> GRatingToScore(Lower(item.rating)),
                 snippet |-> Take(item.text.text, GSnippetMax),
                 publisher |-> TxtUnknown]]

GParseResponse(resp) ==
    LET parsed == [i \in 1..Len(resp.items) |-> GParseClaim(resp.items[i])]
        IsOk(p) == p.ok
        kept == SelectSeq(parsed, IsOk)
    IN  [i \in 1..Len(kept) |-> kept[i].result]

\* f"{claim}|{publisher_filter or 'all'}"
SearchCacheKey(claim, publisher_filter) ==
    claim \o <<"|">> \o (IF publisher_filter.kind = "none" \/ publisher_filter.text = <<>>
                         THEN TxtAll ELSE publisher_filter.text)

\* GoogleFactCheckClient.search: the cache first; on a miss the rate limiter,
\* the request (issued when the limiter returns), and on success the write of
\* the parsed results. raised: slicing a cached value that is no list
\* a search that caches the empty list when its request fails
GSearchCachesFailure(claim, limit, publisher_filter, resp, now, last, fs, gfault, sfault) ==
    LET cache_key == SearchCacheKey(claim, publisher_filter)
        g == CacheGet(cache_key, now, fs, gfault)
        t == RespectRateLimit(now, last, GRateLimitDelay)
        results == IF resp.kind = "ok" THEN GParseResponse(resp) ELSE <<>>
    IN  IF g.ret.kind # "none"
        THEN [raised |-> g.ret.kind # "list",
              ret |-> IF g.ret.kind = "list" THEN Take(g.ret.items, limit) ELSE <<>>,
              files |-> g.files, now |-> now, last |-> last,
              requested |-> FALSE, hit |-> TRUE]
        ELSE [raised |-> FALSE, ret |-> Take(results, limit),
              files |-> CacheSet(cache_key, results, t, g.files, sfault),
              now |-> t, last |-> t, requested |-> TRUE, hit |-> FALSE]

GSearch(claim, limit, publisher_filter, resp, now, last, fs, gfault, sfault) ==
    LET cache_key == SearchCacheKey(claim, publisher_filter)
        g == CacheGet(cache_key, now, fs, gfault)
        t == RespectRateLimit(now, last, GRateLimitDelay)
        results == GParseResponse(resp)
    IN  IF g.ret.kind # "none"
        THEN [raised |-> g.ret.kind # "list",
              ret |-> IF g.ret.kind = "list" THEN Take(g.ret.items, limit) ELSE <<>>,
              files |-> g.files, now |-> now, last |-> last,
              requested |-> FALSE, hit |-> TRUE]
        ELSE IF resp.kind # "ok"
             THEN [raised |-> FALSE, ret |-> <<>>, files |-> g.files,
                   now |-> t, last |-> t, requested |-> TRUE, hit |-> FALSE]
             ELSE [raised |-> FALSE, ret |-> Take(results, limit),
                   files |-> CacheSet(cache_key, results, t, g.files, sfault),
                   now |-> t, last |-> t, requested |-> TRUE, hit |-> FALSE]

----------------------------------------------------------------------------
(* google_factcheck_client.py: CrossReferenceAdapter *)

AdapterSearchLimit == 20
SubstringMinLen == 20

\* _fuzzy_ratio: Jaccard similarity of the character bigram sets
GFuzzyRatio(s1, s2) ==
    LET bg1 == Bigrams(s1)
        bg2 == Bigrams(s2)
    IN  IF bg1 = {} \/ bg2 = {} THEN RatZero
        ELSE <<Cardinality(bg1 \cap bg2), Cardinality(bg1 \cup bg2)>>

\* min(t1, t2, key=len) and max(t1, t2, key=len): the first one on a tie
ShorterOf(t1, t2) == IF Len(t2) < Len(t1) THEN t2 ELSE t1
LongerOf(t1, t2) == IF Len(t2) > Len(t1) THEN t2 ELSE t1

SubstringBonus(t1, t2) ==
    IF Len(ShorterOf(t1, t2)) > SubstringMinLen
       /\ IsSubstring(ShorterOf(t1, t2), LongerOf(t1, t2))
    THEN 2 ELSE 0

\* _compute_similarity: min(0.6 * jaccard + 0.3 * fuzzy + bonus, 1.0)
GComputeSimilarity(text1, text2) ==
    IF text1 = <<>> \/ text2 = <<>> THEN RatZero
    ELSE LET t1 == Strip(Lower(text1))
             t2 == Strip(Lower(text2))
             words1 == WordSet(t1)
             words2 == WordSet(t2)
             union == Cardinality(words1 \cup words2)
             jaccard == IF union > 0
                        THEN <<Cardinality(words1 \cap words2), union>>
                        ELSE RatZero
             fuzzy == GFuzzyRatio(t1, t2)
             bonus == SubstringBonus(t1, t2)
         IN  RatMin(<<6 * jaccard[1] * fuzzy[2] + 3 * fuzzy[1] * jaccard[2]
                        + bonus * jaccard[2] * fuzzy[2],
                      10 * jaccard[2] * fuzzy[2]>>, RatOne)

\* similarity < 0.15
BelowFloor(similarity) == RatLess(similarity, <<15, 100>>)

GEvidence(claim, result) ==
    [type |-> "fact_check",
     source_name |-> result.publisher,
     stance |-> StanceOf(result.truth_score),
     similarity |-> GComputeSimilarity(claim, result.statement.text),
     snippet |-> result.snippet,
     truth_meter |-> result.truth_rating,
     truth_meter_score |-> result.truth_score]

\* the part of cross_reference_claim after search (lines 348-377), given what
\* search did. raised: search raised, an element of the results is no result
\* dict, or a statement is a list (text2.lower())
GCrossReferenceClaim(claim, top_k, sr) ==
    LET results == sr.ret
        bad(r) == \/ ~r.wellformed
                  \/ (claim # <<>> /\ r.statement.kind = "list")
        raised == sr.raised \/ \E i \in 1..Len(results) : bad(results[i])
        all_ev == [i \in 1..Len(results) |-> GEvidence(claim, results[i])]
        Relevant(e) == ~BelowFloor(e.similarity)
        evidence_list == SelectSeq(all_ev, Relevant)
    IN  [raised |-> raised,
         candidates |-> IF raised THEN <<>> ELSE evidence_list,
         evidence |-> IF raised THEN <<>>
                      ELSE Take(SortBySimilarityDesc(evidence_list), top_k)]

----------------------------------------------------------------------------
(* fusion.py *)

\* 1000 * ln(p / (1 - p)) for p = 0.01 .. 0.99, rounded
LogitTable ==
    << -4595, -3892, -3476, -3178, -2944, -2752, -2587, -2442, -2314, -2197, -2091,
       -1992, -1901, -1815, -1735, -1658, -1586, -1516, -1450, -1386, -1325, -1266,
       -1208, -1153, -1099, -1046, -995, -944, -895, -847, -800, -754, -708,
       -663, -619, -575, -532, -490, -447, -405, -364, -323, -282, -241,
       -201, -160, -120, -80, -40, 0, 40, 80, 120, 160, 201,
       241, 282, 323, 364, 405, 447, 490, 532, 575, 619, 663,
       708, 754, 800, 847, 895, 944, 995, 1046, 1099, 1153, 1208,
       1266, 1325, 1386, 1450, 1516, 1586, 1658, 1735, 1815, 1901, 1992,
       2091, 2197, 2314, 2442, 2587, 2752, 2944, 3178, 3476, 3892, 4595 >>

\* 1000 * ln(eps / (1 - eps)) for eps = 1e-6: the clamped ends
LogitEps == -13816

\* logit(p): p in hundredths, clamped to [eps, 1 - eps]; the result in thousandths
logit(p) ==
    IF p <= 0 THEN LogitEps
    ELSE IF p >= 100 THEN -LogitEps
    ELSE LogitTable[p]

\* sigmoid(z) in hundredths, rounded down: the largest p with logit(p) <= z
sigmoid(z) == Cardinality({p \in 1..99 : LogitTable[p] <= z})

WSource == 4
WText == 4
WCross == 6
LikelyTrueThreshold == 70
UncertainThreshold == 45

MainLikelyTrueThreshold == 70
MainUncertainThreshold == 45

\* fusion.py lines 20-22: the verdict named in the explanation text
FusionVerdictOf(conf) ==
    IF conf >= LikelyTrueThreshold THEN "Likely true"
    ELSE IF conf >= UncertainThreshold THEN "Uncertain"
    ELSE "Likely misleading"

\* handler thresholds that drifted from those of fusion.py
VerdictOfDrifted(conf) ==
    IF conf >= MainLikelyTrueThreshold THEN "Likely true"
    ELSE IF conf >= 50 THEN "Uncertain"
    ELSE "Likely misleading"

\* main.py lines 88-93: the verdict analyze reports
VerdictOf(conf) ==
    IF conf >= MainLikelyTrueThreshold THEN "Likely true"
    ELSE IF conf >= MainUncertainThreshold THEN "Uncertain"
    ELSE "Likely misleading"

\* a fusion that applies the weights as given, without normalizing them
CombineUnnormalized(sp, tc, cr, w_source, w_text, w_cross) ==
    LET z == (w_source * logit(sp) + w_text * logit(tc)
              + w_cross * logit(cr)) \div 10
    IN  [raised |-> FALSE, z |-> z, conf |-> sigmoid(z),
         verdict |-> FusionVerdictOf(sigmoid(z))]

\* combine_confidence with its weights, in tenths. raised: the division by
\* the sum of the weights fails (ZeroDivisionError). z in thousandths
CombineWeighted(sp, tc, cr, w_source, w_text, w_cross) ==
    LET s == w_source + w_text + w_cross
        z == (w_source * logit(sp) + w_text * logit(tc)
              + w_cross * logit(cr)) \div s
    IN  IF s = 0
        THEN [raised |-> TRUE, z |-> 0, conf |-> 0, verdict |-> ""]
        ELSE [raised |-> FALSE, z |-> z, conf |-> sigmoid(z),
              verdict |-> FusionVerdictOf(sigmoid(z))]

\* combine_confidence with the default weights; verdict is the one named in the
\* explanation text
combine_confidence(source_prior, text_consistency, cross_reference) ==
    LET c == CombineWeighted(source_prior, text_consistency, cross_reference,
                             WSource, WText, WCross)
    IN  [conf |-> c.conf, verdict |-> c.verdict]

----------------------------------------------------------------------------
(* claims_client.py: extract_claims_and_evidence *)

PipelineTopK == 3
DefaultConsistency == 50

\* the values _compute_text_consistency can return
StanceScores == {90, 10}

RECURSIVE IntSum(_)
IntSum(seq) == IF seq = <<>> THEN 0 ELSE seq[1] + IntSum(Tail(seq))

RECURSIVE Flatten(_)
Flatten(seqs) == IF seqs = <<>> THEN <<>> ELSE seqs[1] \o Flatten(Tail(seqs))

\* Step 3, claims i.. of the request: one rate-limited search per claim; an
\* exception of cross_reference_claim ends the loop and the request
RECURSIVE CrossReferenceAll(_, _, _, _, _, _)
CrossReferenceAll(claims, resps, i, now, last, acc) ==
    IF i > Len(claims)
    THEN [raised |-> FALSE, evidences |-> acc, now |-> now, last |-> last]
    ELSE LET t == RespectRateLimit(now, last, PfRateLimitDelay)
             x == PfCrossReferenceClaim(claims[i], PipelineTopK, resps[i])
         IN  IF x.raised
             THEN [raised |-> TRUE, evidences |-> <<>>, now |-> t, last |-> t]
             ELSE CrossReferenceAll(claims, resps, i + 1, t, t,
                                    Append(acc, x.evidence))

\* an aggregate that averages per claim first and then over the claims with
\* evidence
AggregatePerClaim(evidences) ==
    LET HasEvidence(ev) == ev # <<>>
        with == SelectSeq(evidences, HasEvidence)
        MeanOf(ev) ==
            LET total == RatSum([i \in 1..Len(ev) |-> ev[i].similarity])
            IN  <<total[1], total[2] * Len(ev)>>
        total == RatSum([i \in 1..Len(with) |-> MeanOf(with[i])])
    IN  IF with = <<>> THEN RatZero ELSE <<total[1], total[2] * Len(with)>>

\* sum(all_similarities) / len(all_similarities) if all_similarities else 0.0
AggregateCrossReference(evidences) ==
    LET all_ev == Flatten(evidences)
        all_similarities == [i \in 1..Len(all_ev) |-> all_ev[i].similarity]
        total == RatSum(all_similarities)
    IN  IF all_similarities = <<>> THEN RatZero
        ELSE <<total[1], total[2] * Len(all_similarities)>>

extract_claims_and_evidence(claims, scores, resps, now, last) ==
    LET x == CrossReferenceAll(claims, resps, 1, now, last, <<>>)
    IN  [raised |-> x.raised,
         text_consistency |-> IF scores = <<>> THEN DefaultConsistency
                              ELSE IntSum(scores) \div Len(scores),
         cross_reference |-> AggregateCrossReference(x.evidences),
         claims |-> [i \in 1..Len(x.evidences) |->
                        [text |-> claims[i], evidences |-> x.evidences[i]]],
         now |-> x.now, last |-> x.last]

----------------------------------------------------------------------------
(* main.py: the /analyze handler *)

InsufficientConfidence == -100
DefaultPrior == 50
SeedPrior == 60

\* no domain (0.5), a domain seeded on first sight (0.6)
SourcePriors == {DefaultPrior, SeedPrior}

NoAnalysis ==
    [status |-> "none", source_prior |-> 0, text_consistency |-> 0,
     cross_reference |-> RatZero, combined |-> 0, verdict |-> "", explained |-> "",
     fusion_used |-> FALSE, claims |-> <<>>]

\* lines 78-83: fusion bypassed
InsufficientData(source_prior, ce) ==
    [NoAnalysis EXCEPT !.status = "ok",
        !.source_prior = source_prior,
        !.text_consistency = ce.text_consistency,
        !.cross_reference = ce.cross_reference,
        !.combined = InsufficientConfidence,
        !.verdict = "Insufficient data",
        !.explained = "Insufficient data",
        !.claims = ce.claims]

\* lines 84-93: combine_confidence and the handler's own thresholds
Fused(source_prior, ce) ==
    LET c == combine_confidence(source_prior, ce.text_consistency,
                                RatToPct(ce.cross_reference))
    IN  [NoAnalysis EXCEPT !.status = "ok",
            !.source_prior = source_prior,
            !.text_consistency = ce.text_consistency,
            !.cross_reference = ce.cross_reference,
            !.combined = c.conf,
            !.verdict = VerdictOf(c.conf),
            !.explained = c.verdict,
            !.fusion_used = TRUE,
            !.claims = ce.claims]

\* a fusion step that is bypassed only when no claim has an evidence item
FusionStepOnNoEvidence(source_prior, ce) ==
    IF \A i \in 1..Len(ce.claims) : ce.claims[i].evidences = <<>>
    THEN InsufficientData(source_prior, ce)
    ELSE Fused(source_prior, ce)

\* lines 75-93: the fusion step on the pipeline's output
FusionStep(source_prior, ce) ==
    IF ce.cross_reference[1] = 0
    THEN InsufficientData(source_prior, ce)
    ELSE Fused(source_prior, ce)

NoXref ==
    [adapter |-> "none", claim |-> <<>>, top_k |-> 0, raised |-> FALSE,
     candidates |-> <<>>, evidence |-> <<>>]

NoCall ==
    [op |-> "none", claim |-> <<>>, filter |-> NoneVal, limit |-> 0, key |-> <<>>,
     at |-> 0, pre |-> NoFile, stored |-> <<>>, ret |-> PyNone, raised |-> FALSE,
     requested |-> FALSE, hit |-> FALSE, resp |-> "", gfault |-> "none",
     sfault |-> "none"]

NoPure == [fn |-> "none", args |-> <<>>, out |-> <<>>]

NoWrite ==
    [has |-> FALSE, results |-> <<>>, claim |-> <<>>, filter |-> NoneVal, by |-> ""]

\* the history after a get that left fs2
WrittenAfterGet(key, fs2) ==
    IF fs2[key] = files[key] THEN written ELSE [written EXCEPT ![key] = NoWrite]

\* the history after a set, on top of the history base
WrittenAfterSet(key, results, claim, publisher_filter, by, sf, base) ==
    IF sf = "open_error" THEN base
    ELSE IF sf = "write_error" THEN [base EXCEPT ![key] = NoWrite]
    ELSE [base EXCEPT ![key] = [has |-> TRUE, results |-> results, claim |-> claim,
                                filter |-> publisher_filter, by |-> by]]

\* the server is single-threaded here: one request or call at a time
Idle ==
    /\ analysis.status = "none"
    /\ xref.adapter = "none"
    /\ call.op = "none"
    /\ pure.fn = "none"

\* line 53-54: neither url nor text
AnalyzeRejected ==
    /\ Idle
    /\ analysis' = [NoAnalysis EXCEPT !.status = "rejected"]
    /\ UNCHANGED <<clock, pf_last_request_time, xref, gVars>>

PipelineResponses == Responses(PfItems, MaxItems)

Analyze ==
    /\ Idle
    /\ \E source_prior \in SourcePriors, n \in 0..MaxClaims :
         \E claims \in [1..n -> ClaimTexts], scores \in [1..n -> StanceScores],
            resps \in [1..n -> PipelineResponses] :
           \E ce \in {extract_claims_and_evidence(claims, scores, resps, clock,
                                                 pf_last_request_time)} :
               /\ ce.now <= MaxTime
               /\ clock' = ce.now
               /\ pf_last_request_time' = ce.last
               /\ analysis' = IF ce.raised
                              THEN [NoAnalysis EXCEPT !.status = "raised"]
                              ELSE FusionStep(source_prior, ce)
               /\ UNCHANGED <<xref, gVars>>

----------------------------------------------------------------------------
(* Direct calls of the adapters' cross_reference_claim *)

\* the statements a direct call of the PolitiFact adapter sees
XrefItems ==
    {[stmt |-> StrVal(<<"A", "B">>), slug |-> TxtMostlyTrue],
     [stmt |-> StrVal(<<"a", "b", " ", "x">>), slug |-> TxtHalfTrue],
     [stmt |-> StrVal(<<"d">>), slug |-> TxtFalse],
     [stmt |-> ListVal, slug |-> TxtFalse]}

\* the claim objects a direct call of the Google adapter sees
GXrefItems ==
    {[text |-> StrVal(<<"A", "B">>), rating |-> TxtMostlyTrue, reviewed |-> TRUE],
     [text |-> StrVal(<<"a", "b", "c">>), rating |-> TxtFalse, reviewed |-> TRUE],
     [text |-> StrVal(<<"a", "b", "c", "d">>), rating |-> TxtTrue, reviewed |-> TRUE],
     [text |-> ListVal, rating |-> TxtFalse, reviewed |-> TRUE]}

XrefClaimTexts == {<<"a", "b">>, <<"A", "b">>}

PfXrefResponses == Responses(XrefItems, MaxXrefItems)
GXrefResponses == Responses(GXrefItems, MaxXrefItems)

PfCrossReference ==
    /\ Idle
    /\ \E claim \in XrefClaimTexts, top_k \in 0..MaxTopK,
          resp \in PfXrefResponses :
         \E x \in {PfCrossReferenceClaim(claim, top_k, resp)} :
           LET t == RespectRateLimit(clock, pf_last_request_time, PfRateLimitDelay)
           IN  /\ t <= MaxTime
               /\ clock' = t
               /\ pf_last_request_time' = t
               /\ xref' = [adapter |-> "politifact", claim |-> claim,
                           top_k |-> top_k, raised |-> x.raised,
                           candidates |-> x.candidates, evidence |-> x.evidence]
               /\ UNCHANGED <<analysis, gVars>>

\* lines 341-343: no API key, self.client is None
GCrossReferenceNoKey(claims, topks) ==
    /\ Idle
    /\ ~api_key
    /\ \E claim \in claims, top_k \in topks :
         xref' = [NoXref EXCEPT !.adapter = "google", !.claim = claim,
                                !.top_k = top_k]
    /\ UNCHANGED <<clock, pfVars, gVars>>

SearchCall(claim, limit, publisher_filter, resp, gf, sf, sr) ==
    [op |-> "search", claim |-> claim, filter |-> publisher_filter, limit |-> limit,
     key |-> GetCacheKey(SearchCacheKey(claim, publisher_filter)),
     at |-> clock,
     pre |-> files[GetCacheKey(SearchCacheKey(claim, publisher_filter))],
     stored |-> <<>>, ret |-> PyList(sr.ret), raised |-> sr.raised,
     requested |-> sr.requested, hit |-> sr.hit, resp |-> resp.kind,
     gfault |-> gf, sfault |-> sf]

\* the state after search
SearchEffect(claim, publisher_filter, resp, sf, sr) ==
    LET key == GetCacheKey(SearchCacheKey(claim, publisher_filter))
        afterGet == IF sr.hit \/ files[key].kind = "none" \/ sr.files[key] = files[key]
                    THEN written ELSE [written EXCEPT ![key] = NoWrite]
    IN  /\ sr.now <= MaxTime
        /\ clock' = sr.now
        /\ g_last_request_time' = sr.last
        /\ files' = sr.files
        /\ http' = IF sr.requested
                   THEN <<http[2], [at |-> sr.now, claim |-> claim,
                                    ok |-> resp.kind = "ok"]>>
                   ELSE http
        /\ written' = IF sr.requested /\ resp.kind = "ok"
                      THEN WrittenAfterSet(key, GParseResponse(resp), claim,
                                           publisher_filter, "search", sf,
                                           [written EXCEPT ![key] = NoWrite])
                      ELSE afterGet

GCrossReference(claims, topks, responses, gfaults, sfaults) ==
    /\ Idle
    /\ api_key
    /\ \E claim \in claims, top_k \in topks, resp \in responses,
          gf \in gfaults, sf \in sfaults :
         \E sr \in {GSearch(claim, AdapterSearchLimit, NoneVal, resp, clock,
                            g_last_request_time, files, gf, sf)} :
           \E x \in {GCrossReferenceClaim(claim, top_k, sr)} :
             /\ SearchEffect(claim, NoneVal, resp, sf, sr)
             /\ call' = SearchCall(claim, AdapterSearchLimit, NoneVal, resp, gf, sf, sr)
             /\ xref' = [adapter |-> "google", claim |-> claim, top_k |-> top_k,
                         raised |-> x.raised, candidates |-> x.candidates,
                         evidence |-> x.evidence]
             /\ UNCHANGED <<pfVars, api_key, raceVars>>

----------------------------------------------------------------------------
(* Direct calls of GoogleFactCheckClient.search and of the ResultCache *)

Search(lookups, limits, responses, gfaults, sfaults) ==
    /\ Idle
    /\ api_key
    /\ \E lk \in lookups, limit \in limits, resp \in responses,
          gf \in gfaults, sf \in sfaults :
         \E sr \in {GSearch(lk[1], limit, lk[2], resp, clock, g_last_request_time,
                            files, gf, sf)} :
           /\ SearchEffect(lk[1], lk[2], resp, sf, sr)
           /\ call' = SearchCall(lk[1], limit, lk[2], resp, gf, sf, sr)
           /\ UNCHANGED <<pfVars, xref, api_key, raceVars>>

Get(keyTexts, gfaults) ==
    /\ Idle
    /\ api_key
    /\ \E claim \in keyTexts, gf \in gfaults :
         \E g \in {CacheGet(claim, clock, files, gf)} :
           /\ files' = g.files
           /\ written' = WrittenAfterGet(GetCacheKey(claim), g.files)
           /\ call' = [NoCall EXCEPT !.op = "get", !.claim = claim,
                          !.key = GetCacheKey(claim), !.at = clock,
                          !.pre = files[GetCacheKey(claim)], !.ret = g.ret,
                          !.gfault = gf]
           /\ UNCHANGED <<clock, pfVars, xref, api_key, raceVars, g_last_request_time, http>>

Set(keyTexts, lists, sfaults) ==
    /\ Idle
    /\ api_key
    /\ \E claim \in keyTexts, results \in lists, sf \in sfaults :
         /\ files' = CacheSet(claim, results, clock, files, sf)
         /\ written' = WrittenAfterSet(GetCacheKey(claim), results, claim, NoneVal,
                                       "set", sf, written)
         /\ call' = [NoCall EXCEPT !.op = "set", !.claim = claim,
                        !.key = GetCacheKey(claim), !.at = clock,
                        !.pre = files[GetCacheKey(claim)], !.stored = results,
                        !.sfault = sf]
         /\ UNCHANGED <<clock, pfVars, xref, api_key, raceVars, g_last_request_time, http>>

\* the caller takes the response: the server is idle again
Deliver ==
    /\ ~Idle
    /\ analysis' = NoAnalysis
    /\ xref' = NoXref
    /\ call' = NoCall
    /\ pure' = NoPure
    /\ UNCHANGED <<clock, pf_last_request_time, api_key, raceVars, g_last_request_time,
                   files, http, written>>

Tick ==
    /\ Idle
    /\ clock < MaxTime
    /\ clock' = clock + 1
    /\ UNCHANGED <<pfVars, xref, gVars>>

----------------------------------------------------------------------------
(* The cache keys of the model and the initial state *)

NoFilter == NoneVal
FilterAll == StrVal(TxtAll)

\* the (claim, publisher_filter) pairs of the direct searches
Lookups ==
    {<<<<"a", "b">>, NoFilter>>, <<<<"A", "b">>, NoFilter>>,
     <<<<"a", "b">>, FilterAll>>, <<<<"d">>, NoFilter>>}

CacheKeys == {GetCacheKey(SearchCacheKey(lk[1], lk[2])) : lk \in Lookups}

NoRequest == [at |-> -1, claim |-> <<>>, ok |-> FALSE]

\* the worker threads; a thread that serves nothing
Threads == 1..MaxThreads
NoThread ==
    [pc |-> "idle", adapter |-> 0, wake |-> 0, todo |-> 0, sent |-> <<>>,
     op |-> "none", blocks |-> <<>>, pos |-> 0, fd |-> "none", ret |-> PyNone]

\* the state after start-up, the API key configured or not
InitWith(keyConfigured) ==
    /\ clock = StartTime
    /\ pf_last_request_time = 0
    /\ analysis = NoAnalysis
    /\ xref = NoXref
    /\ api_key \in keyConfigured
    /\ g_last_request_time = 0
    /\ files = [k \in CacheKeys |-> NoFile]
    /\ http = <<NoRequest, NoRequest>>
    /\ call = NoCall
    /\ written = [k \in CacheKeys |-> NoWrite]
    /\ pure = NoPure
    /\ threads = [t \in Threads |-> NoThread]
    /\ cross_reference_adapter = 0
    /\ instances = <<>>
    /\ disk = [exists |-> FALSE, blocks |-> <<>>]

----------------------------------------------------------------------------
(* The analysis pipeline: /analyze requests *)

Init == InitWith({FALSE})

Next == Tick \/ AnalyzeRejected \/ Analyze \/ Deliver

Spec == Init /\ [][Next]_vars

----------------------------------------------------------------------------
(* The two adapters called directly *)

NoFaults == {"none"}

NextXref ==
    \/ Tick
    \/ PfCrossReference
    \/ GCrossReferenceNoKey(XrefClaimTexts, 0..MaxTopK)
    \/ GCrossReference(XrefClaimTexts, 0..MaxTopK, GXrefResponses, NoFaults, NoFaults)
    \/ Deliver

InitXref == InitWith(BOOLEAN)

SpecXref == InitXref /\ [][NextXref]_vars

----------------------------------------------------------------------------
(* The cache and the client, without I/O faults *)

DefaultSearchLimit == 10

\* the claim objects the API returns in the cache specifications
GCacheItems ==
    {[text |-> StrVal(<<"A", "B">>), rating |-> TxtMostlyTrue, reviewed |-> TRUE],
     [text |-> StrVal(<<"d">>), rating |-> TxtFalse, reviewed |-> TRUE]}

CacheResponses == Responses(GCacheItems, MaxCacheItems)

\* the result lists a direct set is given
CacheLists == {GParseResponse(r) : r \in {x \in CacheResponses : x.kind = "ok"}}

\* the texts a direct get or set is given
KeyTexts == {SearchCacheKey(lk[1], lk[2]) : lk \in Lookups}

NextCache ==
    \/ Tick
    \/ Search(Lookups, {DefaultSearchLimit}, CacheResponses, NoFaults, NoFaults)
    \/ Get(KeyTexts, NoFaults)
    \/ Set(KeyTexts, CacheLists, NoFaults)
    \/ Deliver

InitCache == InitWith({TRUE})

SpecCache == InitCache /\ [][NextCache]_vars

----------------------------------------------------------------------------
(* The cache and the client with I/O faults and damaged cache files *)

GetFaults == {"none", "read_error", "unlink_error"}
SetFaults == {"none", "open_error", "write_error"}

BadElement ==
    [kind |-> "number", statement |-> NullVal, truth_rating |-> <<>>,
     truth_score |-> 0, snippet |-> <<>>, publisher |-> <<>>]

\* what a cache file can hold when it was not written in full by set
DamagedFiles(now) ==
    {Garbage,
     JsonFile(JMissing, JArray(<<>>)),
     JsonFile(JBadStr, JArray(<<>>)),
     JsonFile(IsoFormat(now), JMissing),
     JsonFile(IsoFormat(now), JNull),
     JsonFile(IsoFormat(now), JNumber),
     JsonFile(IsoFormat(now), JObject),
     JsonFile(IsoFormat(now), JArray(<<BadElement>>))}

\* the environment damages or rewrites a cache file
Damage(keys) ==
    /\ Idle
    /\ \E k \in keys, f \in DamagedFiles(clock) :
         /\ files' = [files EXCEPT ![k] = f]
         /\ written' = [written EXCEPT ![k] = NoWrite]
    /\ UNCHANGED <<clock, pfVars, xref, api_key, raceVars, g_last_request_time, http, call>>

FaultLookups == {<<<<"a", "b">>, NoFilter>>, <<<<"A", "b">>, NoFilter>>}
FaultKeyTexts == {SearchCacheKey(lk[1], lk[2]) : lk \in FaultLookups}
FaultKeys == {GetCacheKey(k) : k \in FaultKeyTexts}

NextFault ==
    \/ Tick
    \/ Damage(FaultKeys)
    \/ Search(FaultLookups, {DefaultSearchLimit}, CacheResponses, GetFaults, SetFaults)
    \/ GCrossReference({<<"a", "b">>}, {PipelineTopK}, CacheResponses, GetFaults,
                       SetFaults)
    \/ Get(FaultKeyTexts, GetFaults)
    \/ Set(FaultKeyTexts, CacheLists, SetFaults)
    \/ Deliver

SpecFault == InitCache /\ [][NextFault]_vars

----------------------------------------------------------------------------
(* The pure functions called directly *)

\* probabilities passed to combine_confidence, in hundredths: inside (0, 1),
\* on its ends and outside
FusionInputs == {-50, 0, 1, 10, 25, 40, 45, 50, 60, 70, 75, 80, 90, 99, 100, 150}

\* the weights passed, in tenths
FusionWeights ==
    {<<WSource, WText, WCross>>, <<0, 0, 0>>, <<10, 0, 0>>, <<0, 0, 10>>, <<5, 5, 5>>}

\* combine_confidence(source_prior, text_consistency, cross_reference, w...)
Fuse ==
    /\ Idle
    /\ \E sp \in FusionInputs, tc \in FusionInputs, cr \in FusionInputs,
          w \in FusionWeights :
         pure' = [fn |-> "combine_confidence",
                  args |-> [source_prior |-> sp, text_consistency |-> tc,
                            cross_reference |-> cr, weights |-> w],
                  out |-> CombineWeighted(sp, tc, cr, w[1], w[2], w[3])]
    /\ UNCHANGED <<clock, pf_last_request_time, analysis, xref, api_key, raceVars,
                   g_last_request_time, files, http, call, written>>

NextFusion == Fuse \/ Deliver

SpecFusion == Init /\ [][NextFusion]_vars

----------------------------------------------------------------------------
(* The scoring functions of the Google client and its adapter, called directly *)

\* a label as fact-checkers write it: as is, in capitals, capitalized, padded
RatingVariants(label) ==
    {label, Upper(label), <<UpperChar(label[1])>> \o Tail(label),
     <<" ">> \o label \o <<" ", " ">>}

\* ratings that are no key of the table
OtherRatings ==
    {TxtMostlyTrue, TxtHalfTrue, TxtMostlyFalse, <<>>,
     <<"n", "o", "t", " ", "t", "r", "u", "e">>, <<"f", "o", "u", "r", " ", "p", "i", "n", "o", "c", "c", "h", "i", "o", "s">>, <<"m", "o", "s", "t", "l", "y", " ", "l", "e", "g", "e", "n", "d">>}

RatingInputs ==
    UNION {RatingVariants(GRatingMap[i][1]) : i \in 1..Len(GRatingMap)}
    \cup OtherRatings

\* _rating_to_score(rating)
RatingToScore ==
    /\ Idle
    /\ \E rating \in RatingInputs :
         pure' = [fn |-> "_rating_to_score", args |-> rating,
                  out |-> GRatingToScore(rating)]
    /\ UNCHANGED <<clock, pf_last_request_time, analysis, xref, api_key, raceVars,
                   g_last_request_time, files, http, call, written>>

\* the end-to-end example of the specification
VaccineClaim ==
    <<"V", "a", "c", "c", "i", "n", "e", " ", "X", " ", "r", "e", "d", "u", "c", "e",
      "s", " ", "h", "o", "s", "p", "i", "t", "a", "l", "i", "z", "a", "t", "i", "o",
      "n", " ", "b", "y", " ", "9", "0", "%">>
VaccineStatement ==
    <<"V", "a", "c", "c", "i", "n", "e", " ", "X", " ", "c", "u", "t", "s", " ", "h",
      "o", "s", "p", "i", "t", "a", "l", "i", "z", "a", "t", "i", "o", "n", " ", "r",
      "i", "s", "k", " ", "b", "y", " ", "9", "0", " ", "p", "e", "r", "c", "e", "n",
      "t">>

CandidateClaims == {VaccineClaim, <<"a", " ", "b">>}
CandidateStatements == {VaccineStatement, <<"A", " ", "c">>, <<"d">>}

\* what the adapter makes of one candidate of the response: whether it is
\* kept (lines 355-359 of the Google adapter; PolitiFact keeps all) and the
\* evidence item
CandidateEvidence(adapter, claim, statement, rating) ==
    IF adapter = "google"
    THEN LET item == [text |-> StrVal(statement), rating |-> rating,
                      reviewed |-> TRUE]
             e == GEvidence(claim, GParseClaim(item).result)
         IN  [kept |-> ~BelowFloor(e.similarity), evidence |-> e]
    ELSE LET item == [stmt |-> StrVal(statement), slug |-> rating]
             e == PfConvertToEvidenceFormat(PfParseStatement(item).result,
                                            TxtPolitiFact, claim)
         IN  [kept |-> TRUE, evidence |-> e]

\* one candidate of a response taken through parsing and conversion
CrossReferenceCandidate ==
    /\ Idle
    /\ \E adapter \in {"google", "politifact"}, claim \in CandidateClaims,
          statement \in CandidateStatements, rating \in RatingInputs :
         pure' = [fn |-> "candidate",
                  args |-> [adapter |-> adapter, claim |-> claim,
                            statement |-> statement, rating |-> rating],
                  out |-> CandidateEvidence(adapter, claim, statement, rating)]
    /\ UNCHANGED <<clock, pf_last_request_time, analysis, xref, api_key, raceVars,
                   g_last_request_time, files, http, call, written>>

\* texts of 25, 25 and 34 characters
TxtEarth ==
    <<"t", "h", "e", " ", "e", "a", "r", "t", "h", " ", "i", "s", " ", "f", "l", "a",
      "t", " ", "a", "n", "d", " ", "o", "l", "d">>
TxtMoon ==
    <<"t", "h", "e", " ", "m", "o", "o", "n", " ", "i", "s", " ", "m", "a", "d", "e",
      " ", "o", "f", " ", "c", "h", "e", "e", "s">>
TxtEarthLong ==
    <<"t", "h", "e", " ", "e", "a", "r", "t", "h", " ", "i", "s", " ", "f", "l", "a",
      "t", " ", "a", "n", "d", " ", "o", "l", "d", " ", "t", "h", "e", "y", " ", "s",
      "a", "y">>

\* the texts compared: the three above, prefixes of the first that are 20, 21
\* and 9 characters long, the first in capitals, and the example's pair
SimilarityTexts ==
    {TxtEarth, TxtMoon, TxtEarthLong,
     SubSeq(TxtEarth, 1, SubstringMinLen), SubSeq(TxtEarth, 1, SubstringMinLen + 1),
     SubSeq(TxtEarth, 1, 9), <<" ">> \o Upper(TxtEarth),
     VaccineClaim, VaccineStatement}

\* _compute_similarity(text1, text2), with its local substring_bonus in tenths
ComputeSimilarity ==
    /\ Idle
    /\ \E text1 \in SimilarityTexts, text2 \in SimilarityTexts :
         pure' = [fn |-> "_compute_similarity",
                  args |-> [text1 |-> text1, text2 |-> text2],
                  out |-> [similarity |-> GComputeSimilarity(text1, text2),
                           substring_bonus |->
                               SubstringBonus(Strip(Lower(text1)),
                                              Strip(Lower(text2)))]]
    /\ UNCHANGED <<clock, pf_last_request_time, analysis, xref, api_key, raceVars,
                   g_last_request_time, files, http, call, written>>

\* _score_to_stance(truth_score), the score in hundredths
ScoreToStance ==
    /\ Idle
    /\ \E truth_score \in 0..100 :
         pure' = [fn |-> "_score_to_stance", args |-> truth_score,
                  out |-> StanceOf(truth_score)]
    /\ UNCHANGED <<clock, pf_last_request_time, analysis, xref, api_key, raceVars,
                   g_last_request_time, files, http, call, written>>

NextScoring ==
    \/ RatingToScore
    \/ CrossReferenceCandidate
    \/ ComputeSimilarity
    \/ ScoreToStance
    \/ Deliver

SpecScoring == Init /\ [][NextScoring]_vars

----------------------------------------------------------------------------
(* Properties of the analysis pipeline (Spec) *)

AllEvidence(a) == Flatten([i \in 1..Len(a.claims) |-> a.claims[i].evidences])

\* C1: whenever the aggregate cross_reference handed to the fusion step is
\* exactly 0.0, the combined confidence is -1.0 and the verdict is
\* "Insufficient data", whatever the source prior and the text consistency,
\* and combine_confidence is not used.
C1_ZeroCrossReferenceBypassesFusion ==
    (analysis.status = "ok" /\ analysis.cross_reference[1] = 0) =>
        /\ analysis.combined = InsufficientConfidence
        /\ analysis.verdict = "Insufficient data"
        /\ ~analysis.fusion_used

\* a request with evidence of similarity 0, a seeded prior and consistent text
C1_Witness ==
    /\ analysis.status = "ok"
    /\ analysis.cross_reference[1] = 0
    /\ AllEvidence(analysis) # <<>>
    /\ analysis.source_prior = SeedPrior
    /\ analysis.text_consistency = 90
    /\ analysis.verdict = "Insufficient data"

\* C2: analyze answers "Insufficient data" if and only if no evidence item was
\* attached to any claim; with at least one evidence item the aggregate
\* cross_reference is strictly positive and the verdict comes from fusion.
C2_InsufficientIffNoEvidence ==
    analysis.status = "ok" =>
        /\ (analysis.verdict = "Insufficient data") <=> (AllEvidence(analysis) = <<>>)
        /\ AllEvidence(analysis) # <<>> =>
              (analysis.cross_reference[1] > 0 /\ analysis.fusion_used)

\* C3: every evidence item the pipeline attaches to a claim has similarity
\* >= 0.15.
C3_PipelineEvidenceAboveFloor ==
    analysis.status = "ok" =>
        \A i \in 1..Len(AllEvidence(analysis)) :
            ~BelowFloor(AllEvidence(analysis)[i].similarity)

----------------------------------------------------------------------------
(* Properties of the adapters (SpecXref) *)

Count(e, seq) == Cardinality({i \in 1..Len(seq) : seq[i] = e})

\* C4: for every claim and top_k >= 0, cross_reference_claim returns at most
\* top_k items, in non-increasing order of similarity, and they are the top_k
\* highest-similarity items among the candidates that survived filtering.
C4_RankedTopK ==
    (xref.adapter \in {"politifact", "google"} /\ ~xref.raised) =>
        LET ev == xref.evidence
            cand == xref.candidates
        IN  /\ Len(ev) <= xref.top_k
            /\ Len(ev) = IF xref.top_k < Len(cand) THEN xref.top_k ELSE Len(cand)
            /\ \A i \in 1..(Len(ev) - 1) :
                  RatLeq(ev[i + 1].similarity, ev[i].similarity)
            /\ \A i \in 1..Len(ev) : Count(ev[i], ev) <= Count(ev[i], cand)
            /\ \A j \in 1..Len(cand) :
                  Count(cand[j], ev) < Count(cand[j], cand) =>
                     \A i \in 1..Len(ev) :
                        RatLeq(cand[j].similarity, ev[i].similarity)

\* two candidates returned by the API in increasing order of similarity, and
\* top_k = 1: the second candidate is the one returned
C4_Witness ==
    /\ xref.adapter = "google"
    /\ ~xref.raised
    /\ xref.top_k = 1
    /\ Len(xref.candidates) = 2
    /\ RatLess(xref.candidates[1].similarity, xref.candidates[2].similarity)
    /\ xref.evidence = <<xref.candidates[2]>>

\* C5: cross_reference_claim never raises to its caller: without an API key,
\* on a network error, a non-2xx status or a malformed response it returns an
\* empty evidence list.
C5_CrossReferenceNeverRaises ==
    xref.adapter \in {"politifact", "google"} =>
        /\ ~xref.raised
        /\ (~api_key /\ xref.adapter = "google") => xref.evidence = <<>>
        /\ (call.requested /\ call.resp \in FailureKinds) => xref.evidence = <<>>

----------------------------------------------------------------------------
(* Properties of the client and its cache (SpecCache, SpecFault) *)

\* C6: for sequential lookups on one client that miss the cache, two
\* consecutive external HTTP requests are issued at least rate_limit_delay
\* apart.
C6_RequestsSpacedByDelay ==
    http[1].at # -1 => http[2].at - http[1].at >= GRateLimitDelay

\* a lookup that arrived too soon after a failed request for another claim
\* and slept until the delay had passed
C6_Witness ==
    /\ call.op = "search"
    /\ call.requested
    /\ http[1].at # -1
    /\ ~http[1].ok
    /\ http[1].claim # http[2].claim
    /\ call.at - http[1].at < GRateLimitDelay
    /\ http[2].at = http[1].at + GRateLimitDelay

Fresh(entry, now) ==
    /\ entry.kind = "json"
    /\ IsIsoFormat(entry.timestamp)
    /\ now - FromIsoFormat(entry.timestamp) <= TtlTicks

\* C7: without I/O failure, a get on an entry not older than the TTL returns
\* exactly the result list passed to the most recent set for its key.
C7_GetReturnsLastSet ==
    /\ (call.op = "get" /\ Fresh(call.pre, call.at)) =>
          (written[call.key].has /\ call.ret = PyList(written[call.key].results))
    /\ (call.op = "search" /\ call.hit) =>
          (written[call.key].has
           /\ call.ret = PyList(Take(written[call.key].results, call.limit)))

\* a get that returns a non-empty list set earlier under another casing
C7_Witness ==
    /\ call.op = "get"
    /\ Fresh(call.pre, call.at)
    /\ call.ret.kind = "list"
    /\ call.ret.items # <<>>
    /\ written[call.key].claim # call.claim
    /\ FromIsoFormat(call.pre.timestamp) < call.at

\* C8 (state part): a get on an entry older than the TTL returns absent and
\* leaves no entry; an entry whose age is at most the TTL is returned and kept.
C8_LazyExpiryOnGet ==
    (call.op = "get" /\ call.pre.kind = "json") =>
        IF call.at - FromIsoFormat(call.pre.timestamp) > TtlTicks
        THEN call.ret = PyNone /\ files[call.key] = NoFile
        ELSE call.ret # PyNone /\ files[call.key] = call.pre

\* C8 (action part): an entry is removed only by a get on its own key
C8_RemovedOnlyByOwnGet ==
    \A k \in CacheKeys :
        (files[k].kind # "none" /\ files'[k].kind = "none") =>
            (call'.op \in {"get", "search"} /\ call'.key = k)

\* C8: lazy expiry: entries older than the TTL are treated as absent and
\* deleted by the get that finds them, younger ones are returned and kept, and
\* nothing but a get on its own key removes an entry.
C8_LazyExpiry == [](C8_LazyExpiryOnGet) /\ [][C8_RemovedOnlyByOwnGet]_vars

\* a get that found its entry expired and removed it
C8_Witness ==
    /\ call.op = "get"
    /\ call.pre.kind = "json"
    /\ call.at - FromIsoFormat(call.pre.timestamp) > TtlTicks
    /\ call.ret = PyNone
    /\ files[call.key] = NoFile

\* C9: two lookups use the same cache entry if and only if their claims are
\* equal ignoring case and their publisher filters are the same, no filter
\* being different from every filter value.
C9_SameEntryIffSameLookup ==
    \A k \in CacheKeys, lk \in Lookups :
        (written[k].has /\ written[k].by = "search") =>
            ((GetCacheKey(SearchCacheKey(lk[1], lk[2])) = k)
                <=> (/\ Lower(lk[1]) = Lower(written[k].claim)
                     /\ lk[2] = written[k].filter))

\* C10: whatever a cache entry contains and whatever I/O error a read or a
\* write meets, get, set, search and cross_reference_claim do not raise; a
\* bad entry behaves as a cache miss.
C10_CacheNeverFailsCaller ==
    /\ ~call.raised
    /\ ~xref.raised
    /\ (call.op \in {"get", "search"} /\ call.pre.kind # "none"
        /\ call.pre \in DamagedFiles(call.at)) =>
          (call.ret.kind \in {"none", "list"} /\ ~call.hit)

\* an entry that json.load rejects or that lacks a usable timestamp or results
CorruptEntry(f) ==
    \/ f.kind = "garbage"
    \/ f.kind = "json" /\ (~IsIsoFormat(f.timestamp) \/ f.results.kind = "missing")

\* C11: a get that finds an unreadable or malformed entry returns absent and
\* evicts it: afterwards the store holds no entry under that key.
C11_CorruptEntryEvicted ==
    (call.op = "get" /\ CorruptEntry(call.pre)) =>
        (call.ret = PyNone /\ files[call.key] = NoFile)

\* the ranked evidence a lookup for claim computes from a fetched result list
RankedFrom(claim, results, top_k) ==
    GCrossReferenceClaim(claim, top_k,
                         [raised |-> FALSE, ret |-> results]).evidence

\* C12: once results for a claim were fetched and cached, a later
\* cross_reference lookup for the claim within the TTL, whatever its top_k,
\* makes no external call and returns the first top_k items of the ranked list
\* of the fetched results; a smaller top_k gives a prefix of a larger one.
C12_CachedLookupReusesFullResults ==
    (xref.adapter = "google" /\ call.op = "search" /\ Fresh(call.pre, call.at)) =>
        /\ call.hit
        /\ ~call.requested
        /\ written[call.key].has
        /\ ~xref.raised =>
             \A k \in 0..MaxTopK :
                Take(RankedFrom(xref.claim, written[call.key].results, k),
                     xref.top_k)
                  = Take(xref.evidence, k)

\* a lookup under another casing answered from the cache with two items,
\* ranked in the order opposite to the order in which they were fetched
C12_Witness ==
    /\ xref.adapter = "google"
    /\ call.hit
    /\ written[call.key].has
    /\ written[call.key].claim # xref.claim
    /\ xref.top_k = MaxTopK
    /\ Len(xref.evidence) = 2
    /\ RatLess(GComputeSimilarity(xref.claim, written[call.key].results[1].statement.text),
               GComputeSimilarity(xref.claim, written[call.key].results[2].statement.text))

----------------------------------------------------------------------------
(* Properties of the fusion (SpecFusion, Spec) *)

Clamp(p) == IF p < 1 THEN 0 ELSE IF p > 99 THEN 100 ELSE p

\* C13: with the default weights combine_confidence returns the logistic of
\* (2 logit(a) + 2 logit(b) + 3 logit(c)) / 7; it is below 0.45 for
\* (0.6, 0.4, 0.1) and at least 0.7 for (0.8, 0.8, 0.7).
C13_FusionIsNormalizedLogOdds ==
    (pure.fn = "combine_confidence"
     /\ pure.args.weights = <<WSource, WText, WCross>>) =>
        LET a == pure.args.source_prior
            b == pure.args.text_consistency
            c == pure.args.cross_reference
        IN  /\ ~pure.out.raised
            /\ pure.out.conf
                 = sigmoid((2 * logit(a) + 2 * logit(b) + 3 * logit(c)) \div 7)
            /\ (a = 60 /\ b = 40 /\ c = 10) => pure.out.conf < 45
            /\ (a = 80 /\ b = 80 /\ c = 70) => pure.out.conf >= 70

\* the call of the repository's test for supportive evidence
C13_Witness ==
    /\ pure.fn = "combine_confidence"
    /\ pure.args = [source_prior |-> 80, text_consistency |-> 80,
                    cross_reference |-> 70, weights |-> <<WSource, WText, WCross>>]
    /\ pure.out.conf = 76

\* C14: when fusion is not bypassed, analyze reports "Likely true" exactly when
\* the confidence is >= 0.7, "Uncertain" exactly when it is in [0.45, 0.7) and
\* "Likely misleading" exactly when it is < 0.45, and this is the verdict that
\* combine_confidence names in the explanation.
C14_VerdictByThreshold ==
    (analysis.status = "ok" /\ analysis.fusion_used) =>
        /\ (analysis.verdict = "Likely true") <=> (analysis.combined >= 70)
        /\ (analysis.verdict = "Uncertain")
              <=> (45 <= analysis.combined /\ analysis.combined < 70)
        /\ (analysis.verdict = "Likely misleading") <=> (analysis.combined < 45)
        /\ analysis.explained = analysis.verdict

\* a fused response just above the lower threshold
C14_Witness ==
    /\ analysis.status = "ok"
    /\ analysis.fusion_used
    /\ analysis.combined = 46
    /\ analysis.verdict = "Uncertain"
    /\ analysis.explained = "Uncertain"

\* C15: for any inputs, also <= 0 and >= 1, and any non-negative weights,
\* combine_confidence raises no error and returns a confidence strictly
\* between 0 and 1, the one of the inputs clamped to [1e-6, 1 - 1e-6].
C15_FusionClampsAndNeverRaises ==
    pure.fn = "combine_confidence" =>
        LET a == pure.args.source_prior
            b == pure.args.text_consistency
            c == pure.args.cross_reference
            w == pure.args.weights
        IN  /\ ~pure.out.raised
            /\ LogitEps <= pure.out.z /\ pure.out.z <= -LogitEps
            /\ pure.out = CombineWeighted(Clamp(a), Clamp(b), Clamp(c),
                                          w[1], w[2], w[3])

----------------------------------------------------------------------------
(* Properties of the scoring functions (SpecScoring) *)

\* the canonical rating table, in hundredths
CanonicalRatings ==
    << <<<<"t", "r", "u", "e">>, 95>>,
       <<<<"m", "o", "s", "t", "l", "y", " ", "t", "r", "u", "e">>, 75>>,
       <<<<"h", "a", "l", "f", " ", "t", "r", "u", "e">>, 50>>,
       <<<<"m", "i", "x", "t", "u", "r", "e">>, 50>>,
       <<<<"u", "n", "p", "r", "o", "v", "e", "n">>, 40>>,
       <<<<"u", "n", "d", "e", "t", "e", "r", "m", "i", "n", "e", "d">>, 40>>,
       <<<<"m", "o", "s", "t", "l", "y", " ", "f", "a", "l", "s", "e">>, 25>>,
       <<<<"f", "a", "l", "s", "e">>, 5>>,
       <<<<"p", "a", "n", "t", "s", " ", "o", "n", " ", "f", "i", "r", "e">>, 0>>,
       <<<<"p", "a", "n", "t", "s", "-", "f", "i", "r", "e">>, 0>>,
       <<<<"l", "e", "g", "e", "n", "d">>, 0>>,
       <<<<"o", "u", "t", "d", "a", "t", "e", "d">>, 30>>,
       <<<<"m", "i", "s", "l", "e", "a", "d", "i", "n", "g">>, 20>> >>

\* C16: the rating normalizer maps each canonical label, matched exactly
\* after lower-casing and trimming, to its table score (true 0.95, mostly true
\* 0.75, half true and mixture 0.5, unproven and undetermined 0.4, mostly false
\* 0.25, false 0.05, pants on fire, pants-fire and legend 0.0, outdated 0.3,
\* misleading 0.2).
C16_CanonicalRatingScores ==
    pure.fn = "_rating_to_score" =>
        \A i \in 1..Len(CanonicalRatings) :
            Strip(Lower(pure.args)) = CanonicalRatings[i][1] =>
                pure.out = CanonicalRatings[i][2]

\* C17: a candidate rated "mostly-true" that passes the relevance floor yields
\* evidence with truth_meter_score 0.75 and stance "supports"; for the claim
\* "Vaccine X reduces hospitalization by 90%" against the statement "Vaccine X
\* cuts hospitalization risk by 90 percent" the similarity is above 0.3.
C17_MostlyTrueCandidate ==
    (pure.fn = "candidate" /\ pure.args.rating = TxtMostlyTrue /\ pure.out.kept) =>
        /\ pure.out.evidence.truth_meter_score = 75
        /\ pure.out.evidence.stance = "supports"
        /\ (pure.args.claim = VaccineClaim
            /\ pure.args.statement = VaccineStatement) =>
              RatLess(<<3, 10>>, pure.out.evidence.similarity)

\* C18: the similarity includes the 0.2 substring bonus exactly when the
\* shorter of the two normalized strings is longer than 20 characters and is
\* a literal substring of the longer one; two strings neither of which
\* contains the other never receive it, also when they have the same length.
C18_SubstringBonusExactlyWhenContained ==
    pure.fn = "_compute_similarity" =>
        LET t1 == Strip(Lower(pure.args.text1))
            t2 == Strip(Lower(pure.args.text2))
            contained == IF Len(t1) <= Len(t2)
                         THEN Len(t1) > 20 /\ IsSubstring(t1, t2)
                         ELSE Len(t2) > 20 /\ IsSubstring(t2, t1)
        IN  /\ (pure.out.substring_bonus = 2) <=> contained
            /\ pure.out.substring_bonus \in {0, 2}
            /\ (~IsSubstring(t1, t2) /\ ~IsSubstring(t2, t1)) =>
                  pure.out.substring_bonus = 0

\* the stance the classifier is to give a score in hundredths
StanceDue(t) == IF t >= 70 THEN "supports" ELSE IF t <= 30 THEN "refutes" ELSE "mixed"

\* C19: every evidence item has stance "supports" if its truth_meter_score is
\* >= 0.7, "refutes" if it is <= 0.3 and "mixed" otherwise; 0.7 and 0.3
\* themselves fall in "supports" and "refutes".
C19_StanceByScore ==
    /\ pure.fn = "candidate" =>
          pure.out.evidence.stance = StanceDue(pure.out.evidence.truth_meter_score)
    /\ pure.fn = "_score_to_stance" => pure.out = StanceDue(pure.args)

\* a kept candidate rated "outdated": a score on the boundary 0.3
C19_Witness ==
    /\ pure.fn = "candidate"
    /\ pure.args.adapter = "google"
    /\ pure.out.kept
    /\ pure.out.evidence.truth_meter_score = 30
    /\ pure.out.evidence.stance = "refutes"

----------------------------------------------------------------------------
(* Properties of the aggregate cross-reference metric (Spec) *)

\* the sum of the similarities of the items of a list of evidence
RECURSIVE SimilaritySum(_)
SimilaritySum(ev) ==
    IF ev = <<>> THEN RatZero
    ELSE RatAdd(ev[1].similarity, SimilaritySum(Tail(ev)))

\* C20: the aggregate cross_reference is the plain mean of the similarity of
\* every evidence item attached to every claim of the request, each item
\* counted once, and 0.0 when there is no evidence item, also when there is
\* no claim.
C20_AggregateIsPlainMean ==
    analysis.status = "ok" =>
        LET all == AllEvidence(analysis)
            total == SimilaritySum(all)
        IN  IF all = <<>>
            THEN analysis.cross_reference[1] = 0
            ELSE RatEq(analysis.cross_reference, <<total[1], total[2] * Len(all)>>)

\* two claims with two and one evidence items, where the plain mean (1/4)
\* differs from the mean of the claims' means (3/16)
C20_Witness ==
    /\ analysis.status = "ok"
    /\ Len(analysis.claims) = 2
    /\ Len(analysis.claims[1].evidences) = 2
    /\ Len(analysis.claims[2].evidences) = 1
    /\ RatEq(analysis.cross_reference, <<1, 4>>)
    /\ ~RatEq(AggregatePerClaim([i \in 1..2 |-> analysis.claims[i].evidences]),
              analysis.cross_reference)

----------------------------------------------------------------------------
(* Concurrent /analyze requests: the endpoint is a plain def, so the server  *)
(* runs each request on a worker thread. A thread's steps are the accesses   *)
(* of the state the threads share.                                           *)

\* main.py 52-73, claims_client.py 51: a request arrives and its claims are extracted
AnalyzeStart(t) ==
    /\ threads[t].pc = "idle"
    /\ \E n \in 1..MaxClaims :
         threads' = [threads EXCEPT ![t].pc = "adapter_check", ![t].todo = n]
    /\ UNCHANGED <<seqVars, cross_reference_adapter, instances, disk>>

\* get_cross_reference_adapter, line 27: the test of the global
AdapterCheck(t) ==
    /\ threads[t].pc = "adapter_check"
    /\ threads' = [threads EXCEPT ![t].pc = IF cross_reference_adapter = 0
                                            THEN "adapter_create"
                                            ELSE "adapter_return"]
    /\ UNCHANGED <<seqVars, cross_reference_adapter, instances, disk>>

\* line 28: a new adapter (its client's last_request_time is 0) is stored in the global
AdapterCreate(t) ==
    /\ threads[t].pc = "adapter_create"
    /\ instances' = Append(instances, 0)
    /\ cross_reference_adapter' = Len(instances) + 1
    /\ threads' = [threads EXCEPT ![t].pc = "adapter_return"]
    /\ UNCHANGED <<seqVars, disk>>

\* line 29 and line 62: the global is read and becomes the request's adapter
AdapterReturn(t) ==
    /\ threads[t].pc = "adapter_return"
    /\ threads' = [threads EXCEPT ![t].pc = "limiter_read",
                                  ![t].adapter = cross_reference_adapter]
    /\ UNCHANGED <<seqVars, cross_reference_adapter, instances, disk>>

\* PolitiFactClient._respect_rate_limit, lines 136-138: the time and the
\* timestamp are read and the thread sleeps until wake when the call is early
LimiterRead(t) ==
    /\ threads[t].pc = "limiter_read"
    /\ threads' = [threads EXCEPT
                     ![t].pc = "limiter_stamp",
                     ![t].wake = RespectRateLimit(clock, instances[threads[t].adapter],
                                                  PfRateLimitDelay)]
    /\ UNCHANGED <<seqVars, cross_reference_adapter, instances, disk>>

\* line 139 and search line 66: the sleep is over, the timestamp is written and
\* the request is sent; then the next claim of the loop (claims_client.py 65-66)
LimiterStamp(t) ==
    /\ threads[t].pc = "limiter_stamp"
    /\ clock >= threads[t].wake
    /\ instances' = [instances EXCEPT ![threads[t].adapter] = clock]
    /\ threads' = [threads EXCEPT
                     ![t].pc = IF threads[t].todo > 1 THEN "limiter_read" ELSE "done",
                     ![t].todo = threads[t].todo - 1,
                     ![t].sent = Append(threads[t].sent,
                                        [at |-> clock, adapter |-> threads[t].adapter])]
    /\ UNCHANGED <<seqVars, cross_reference_adapter, disk>>

NextRace ==
    \/ Tick
    \/ \E t \in Threads : AnalyzeStart(t)
    \/ \E t \in Threads : AdapterCheck(t)
    \/ \E t \in Threads : AdapterCreate(t)
    \/ \E t \in Threads : AdapterReturn(t)
    \/ \E t \in Threads : LimiterRead(t)
    \/ \E t \in Threads : LimiterStamp(t)

SpecRace == Init /\ [][NextRace]_vars

\* the requests sent so far: <<thread, position in the thread's sequence>>
Sent == {<<t, i>> \in Threads \X (1..MaxClaims) : i <= Len(threads[t].sent)}

\* C21: when several analysis requests run concurrently, any two external
\* requests are issued at least rate_limit_delay apart and all of them go
\* through one adapter instance with one last-request timestamp.
C21_ConcurrentRequestsSpaced ==
    /\ Len(instances) <= 1
    /\ \A a \in Sent, b \in Sent :
         a # b =>
           /\ threads[a[1]].sent[a[2]].adapter = threads[b[1]].sent[b[2]].adapter
           /\ \/ threads[a[1]].sent[a[2]].at - threads[b[1]].sent[b[2]].at >= PfRateLimitDelay
              \/ threads[b[1]].sent[b[2]].at - threads[a[1]].sent[a[2]].at >= PfRateLimitDelay

----------------------------------------------------------------------------
(* Concurrent get and set on one cache key. The file is a sequence of       *)
(* blocks, a block being what one flush of the file buffer writes: the      *)
(* first holds the timestamp, each further one a result, and the block that *)
(* ends the document closes it.                                             *)

\* json.dump(cached_data, f, indent=2) as the blocks written one after another
JsonBlocks(timestamp, results) ==
    <<[kind |-> "head", val |-> IsoFormat(timestamp), last |-> results = <<>>]>>
    \o [i \in 1..Len(results) |->
          [kind |-> "item", val |-> ResultToJson(results[i]), last |-> i = Len(results)]]

\* json.load(f) of the blocks read: a document is a head, then results, closed
\* by its last block and by no block before it; anything else is no JSON
ParseBlocks(blocks) ==
    IF /\ Len(blocks) >= 1
       /\ blocks[1].kind = "head"
       /\ \A i \in 2..Len(blocks) : blocks[i].kind = "item"
       /\ \A i \in 1..Len(blocks) : blocks[i].last <=> i = Len(blocks)
    THEN JsonFile(blocks[1].val, [kind |-> "array", val |-> 0,
                                  items |-> [i \in 1..(Len(blocks) - 1) |-> blocks[i + 1].val]])
    ELSE Garbage

\* a write of one block at the writer's own file position; a position beyond
\* the end of the file leaves a hole of zero bytes
WriteAt(blocks, pos, b) ==
    IF pos <= Len(blocks) THEN [blocks EXCEPT ![pos] = b]
    ELSE blocks \o [i \in 1..(pos - Len(blocks) - 1) |->
                       [kind |-> "hole", val |-> JMissing, last |-> FALSE]] \o <<b>>

\* the result lists the racing sets are given: no list holds a result twice,
\* so a list made of the results of two different lists is none of them
RaceLists ==
    {l \in {GParseResponse(r) : r \in {x \in Responses(GCacheItems, MaxRaceItems) : x.kind = "ok"}} :
        \A i, j \in 1..Len(l) : i # j => l[i] # l[j]}

\* a thread calls get or set for the key
CacheStart(t) ==
    /\ threads[t].pc = "idle"
    /\ \/ threads' = [threads EXCEPT ![t].pc = "get_exists", ![t].op = "get"]
       \/ \E results \in RaceLists :
            threads' = [threads EXCEPT ![t].pc = "set_open", ![t].op = "set",
                                       ![t].blocks = JsonBlocks(clock, results)]
    /\ UNCHANGED <<seqVars, cross_reference_adapter, instances, disk>>

\* get, lines 52-53
GetExists(t) ==
    /\ threads[t].pc = "get_exists"
    /\ threads' = [threads EXCEPT ![t].pc = IF disk.exists THEN "get_read" ELSE "done"]
    /\ UNCHANGED <<seqVars, cross_reference_adapter, instances, disk>>

\* get, lines 55-61 and 66-71: open, read, parse, the expiry test; every
\* exception (the file is gone, the text is no JSON) is caught and gives None
GetRead(t) ==
    /\ threads[t].pc = "get_read"
    /\ LET f == IF disk.exists THEN ParseBlocks(disk.blocks) ELSE NoFile
           g == CacheGet(<<"k">>, clock, [k \in {GetCacheKey(<<"k">>)} |-> f], "none")
       IN  threads' = [threads EXCEPT
                         ![t].pc = IF g.files[GetCacheKey(<<"k">>)] # f
                                   THEN "get_unlink" ELSE "done",
                         ![t].ret = g.ret]
    /\ UNCHANGED <<seqVars, cross_reference_adapter, instances, disk>>

\* get, lines 63-64: unlink; the file may be gone already (the error is
\* caught). A writer that holds the removed file open writes to no file.
GetUnlink(t) ==
    /\ threads[t].pc = "get_unlink"
    /\ disk' = [exists |-> FALSE, blocks |-> <<>>]
    /\ threads' = [u \in Threads |->
                     IF u = t THEN [threads[u] EXCEPT !.pc = "done"]
                     ELSE IF disk.exists /\ threads[u].fd = "open"
                          THEN [threads[u] EXCEPT !.fd = "orphan"]
                          ELSE threads[u]]
    /\ UNCHANGED <<seqVars, cross_reference_adapter, instances>>

\* set, line 91: open(cache_path, 'w') creates the file or truncates it
SetOpen(t) ==
    /\ threads[t].pc = "set_open"
    /\ disk' = [exists |-> TRUE, blocks |-> <<>>]
    /\ threads' = [threads EXCEPT ![t].pc = "set_write", ![t].pos = 1, ![t].fd = "open"]
    /\ UNCHANGED <<seqVars, cross_reference_adapter, instances>>

\* set, line 92 and the close at the end of the with block: the next block
SetWrite(t) ==
    /\ threads[t].pc = "set_write"
    /\ disk' = IF threads[t].fd = "open"
               THEN [disk EXCEPT !.blocks = WriteAt(disk.blocks, threads[t].pos,
                                                    threads[t].blocks[threads[t].pos])]
               ELSE disk
    /\ threads' = [threads EXCEPT
                     ![t].pos = threads[t].pos + 1,
                     ![t].pc = IF threads[t].pos = Len(threads[t].blocks)
                               THEN "done" ELSE "set_write",
                     ![t].fd = IF threads[t].pos = Len(threads[t].blocks)
                               THEN "none" ELSE threads[t].fd]
    /\ UNCHANGED <<seqVars, cross_reference_adapter, instances>>

\* the caller takes what get or set returned
CacheReturn(t) ==
    /\ threads[t].pc = "done"
    /\ threads[t].op # "none"
    /\ threads' = [threads EXCEPT ![t] = NoThread]
    /\ UNCHANGED <<seqVars, cross_reference_adapter, instances, disk>>

NextCacheRace ==
    \/ Tick
    \/ \E t \in Threads : CacheStart(t)
    \/ \E t \in Threads : GetExists(t)
    \/ \E t \in Threads : GetRead(t)
    \/ \E t \in Threads : GetUnlink(t)
    \/ \E t \in Threads : SetOpen(t)
    \/ \E t \in Threads : SetWrite(t)
    \/ \E t \in Threads : CacheReturn(t)

SpecCacheRace == Init /\ [][NextCacheRace]_vars

\* C22: when get and set run concurrently on one cache key, every get returns
\* either absent or a result list that some set wrote in full, never a mixture
\* of two writes (no get or set raises: every exception is caught). Every list
\* a set writes is one of RaceLists.
C22_GetReturnsWholeWrite ==
    \A t \in Threads :
        (threads[t].op = "get" /\ threads[t].pc = "done") =>
            \/ threads[t].ret = PyNone
            \/ /\ threads[t].ret.kind = "list"
               /\ threads[t].ret.items \in RaceLists

----------------------------------------------------------------------------
(* C23: what a lookup whose external call failed leaves in the cache *)

\* the search being answered sent its request and the request failed (a
\* network error, a non-2xx status or a body that is no JSON)
FailedLookup == call.op = "search" /\ call.requested /\ call.resp # "ok"

\* the search being answered sent its request and the API found no fact-check
EmptyLookup ==
    /\ call.op = "search" /\ call.requested /\ call.resp = "ok"
    /\ call.ret = PyList(<<>>)

\* the entry the search met was a readable entry older than the TTL
MetExpired ==
    /\ call.pre.kind = "json"
    /\ IsIsoFormat(call.pre.timestamp)
    /\ call.at - FromIsoFormat(call.pre.timestamp) > TtlTicks

\* what a get of the key of the search being answered returns at time now
LookupAt(now) ==
    CacheGet(SearchCacheKey(call.claim, call.filter), now, files, "none").ret

\* C23 as stated: a lookup whose external call fails leaves the cache
\* unchanged (the entry of its key is what it was before the lookup).
C23_FailedLookupLeavesCacheUnchanged ==
    FailedLookup => files[call.key] = call.pre

\* C23, amended: a lookup whose external call fails writes no entry: the file
\* of its key is what the lookup's own cache read left (an expired entry is
\* removed by that read, anything else stays), so a later lookup misses again
\* and calls the external source; a successful call that found no
\* fact-checks caches the empty list, which lookups within the TTL are served.
C23_FailedLookupWritesNoEntry ==
    /\ FailedLookup =>
         /\ files[call.key] = IF MetExpired /\ call.gfault = "none"
                              THEN NoFile ELSE call.pre
         /\ call.gfault = "none" =>
              \A now \in clock..MaxTime : LookupAt(now) = PyNone
    /\ (EmptyLookup /\ call.sfault = "none") =>
         /\ files[call.key] = JsonFile(IsoFormat(clock), JArray(<<>>))
         /\ \A now \in clock..MaxTime :
              now - clock <= TtlTicks => LookupAt(now) = PyList(<<>>)

\* a failed lookup that met an expired entry and left no file
C23_Witness ==
    FailedLookup /\ MetExpired /\ call.gfault = "none" /\ files[call.key] = NoFile

====
